---- MODULE Spec2Model ----
(***************************************************************************)
(* Model of src/Topo_Xsection.py: a Streamlit script that is re-run from   *)
(* top to bottom on every interaction.  One run of the script is one       *)
(* request.  The widget values, and the files left in the temporary        *)
(* directory, are what survives from one run to the next.                  *)
(*                                                                         *)
(* Numbers.  A Python float that is finite is held in tenths, as an        *)
(* integer (12.5 is 125); the coordinate strings the model enumerates have *)
(* at most one fractional digit, and the rasters have origins and pixel    *)
(* sizes that are whole tenths, so every quotient the code floors or       *)
(* rounds is decided exactly.  inf and nan are kept as values of their     *)
(* own.  Strings are sequences of one-character strings.                   *)
(*                                                                         *)
(* Library calls are modelled by what the library does: float(), int(),    *)
(* str() and round() of Python, rasterio.transform.rowcol (inverse affine  *)
(* transform, then op = math.floor), numpy integer-array indexing          *)
(* (negative indices count from the end, anything else out of range        *)
(* raises IndexError) and skimage.draw.line (Bresenham, skimage/draw/      *)
(* _draw.pyx, _line).                                                      *)
(***************************************************************************)
EXTENDS Integers, Sequences, FiniteSets, TLC

VARIABLES
    uploaded_file,      \* st.file_uploader: the raster offered, or NoFile
    start_x, start_y,   \* st.text_input values (strings)
    end_x, end_y,
    pc,                 \* position of the running script
    start_x_val, start_y_val, end_x_val, end_y_val,
    errors,             \* st.error calls of this run
    infos,              \* st.info calls of this run
    shown,              \* st.write / st.pyplot / st.download_button of this run
    section_length,     \* hundredths; -1 while not computed
    disk,               \* names of the files present in the temp directory
    tmp_file_path,      \* name of this run's .tif temp file, 0 if none
    dxf_file_path,      \* name of this run's .dxf temp file, 0 if none
    dem_data,           \* rows of the first band, << >> while not read
    transform,          \* the raster's affine transform, NoTransform while not read
    start_pixel, end_pixel,   \* <<row, col>>, << >> while not computed
    rr_cc,              \* the pixels line() returned, in order
    rr_cc_swapped,      \* line() of the swapped end points (line harness only)
    elevation_values,   \* dem_data[rr, cc], << >> while not computed
    points,             \* the polyline's points, << >> while not computed
    created,            \* names of the temp files this run has created
    outcome             \* how the run ended, "running" until it has

vars == << uploaded_file, start_x, start_y, end_x, end_y, pc,
           start_x_val, start_y_val, end_x_val, end_y_val,
           errors, infos, shown, section_length, disk, tmp_file_path,
           dxf_file_path, dem_data, transform, start_pixel, end_pixel,
           rr_cc, rr_cc_swapped, elevation_values, points, created, outcome >>

-----------------------------------------------------------------------------
(* Bounds of the model *)

\* Names the temp directory can hold; a run starts only while two are free.
MaxFiles == 4

\* The line harness draws pixel coordinates from -MaxCoord..MaxCoord.
MaxCoord == 3

-----------------------------------------------------------------------------
(* Values *)

Abs(n) == IF n < 0 THEN -n ELSE n

Max(a, b) == IF a >= b THEN a ELSE b

FloorDiv(n, d) == IF d > 0 THEN n \div d ELSE (-n) \div (-d)

\* Python None, as the value is_valid_coordinate returns on a ValueError.
None == [kind |-> "None", t |-> 0]

Fin(t)  == [kind |-> "fin", t |-> t]
Inf(sg) == [kind |-> "inf", t |-> sg]
NaN     == [kind |-> "nan", t |-> 0]

NoFile == [kind |-> "none", dem |-> << >>, a |-> 1, c |-> 0, e |-> -1, f |-> 0]

NoTransform == [a |-> 0, c |-> 0, e |-> 0, f |-> 0]

\* Rasters a user can upload.  a, e: pixel width and (negative) pixel height;
\* c, f: easting and northing of the upper left corner; all in tenths.
DemA == [kind |-> "tiff",
         dem  |-> << <<100, 101, 102>>, <<110, 111, 112>>, <<120, 121, 122>> >>,
         a |-> 10, c |-> 100, e |-> -10, f |-> 130]

DemB == [kind |-> "tiff",
         dem  |-> << <<200>>, <<210>> >>,
         a |-> 10, c |-> 110, e |-> -10, f |-> 120]

\* A file with a .tif name that rasterio cannot decode.
Corrupt == [kind |-> "corrupt", dem |-> << >>, a |-> 1, c |-> 0, e |-> -1, f |-> 0]

Uploads == {NoFile, DemA, DemB, Corrupt}

\* Texts a user can type into a coordinate field.
CoordStrings ==
    { << >>,
      <<"a", "b", "c">>,
      <<"i", "n", "f">>,
      <<"n", "a", "n">>,
      <<"7", ".", "3">>,
      <<"-", "8", ".", "9">>,
      <<"1", "0", "0", ".", "1">>,
      <<"1", "0", ".", "4">>,
      <<"1", "1", ".", "7">>,
      <<"1", "2", ".", "5">> }

-----------------------------------------------------------------------------
(* float(value), line 29 *)

Digits == {"0", "1", "2", "3", "4", "5", "6", "7", "8", "9"}

DigitVal(ch) ==
    CASE ch = "0" -> 0 [] ch = "1" -> 1 [] ch = "2" -> 2 [] ch = "3" -> 3
      [] ch = "4" -> 4 [] ch = "5" -> 5 [] ch = "6" -> 6 [] ch = "7" -> 7
      [] ch = "8" -> 8 [] ch = "9" -> 9

RECURSIVE DecimalValue(_)
DecimalValue(ds) ==
    IF ds = << >> THEN 0
    ELSE 10 * DecimalValue(SubSeq(ds, 1, Len(ds) - 1)) + DigitVal(ds[Len(ds)])

\* The string without a leading sign.
Unsigned(s) ==
    IF s # << >> /\ s[1] \in {"-", "+"} THEN Tail(s) ELSE s

Sign(s) == IF s # << >> /\ s[1] = "-" THEN -1 ELSE 1

DotAt(s) == {i \in 1..Len(s) : s[i] = "."}

\* ValueError of float(): anything but [sign] inf, [sign] nan, or
\* [sign] digits [. digits] with a digit somewhere.
IsNumeral(s) ==
    LET u == Unsigned(s) IN
    \/ u = <<"i", "n", "f">>
    \/ u = <<"n", "a", "n">>
    \/ /\ Cardinality(DotAt(u)) <= 1
       /\ \A i \in 1..Len(u) : u[i] \in Digits \cup {"."}
       /\ \E i \in 1..Len(u) : u[i] \in Digits

\* float(s) of a numeral, in tenths (digits after the first fractional one
\* are beyond the model's resolution and are dropped).
FloatOf(s) ==
    LET u     == Unsigned(s)
        dot   == IF DotAt(u) = {} THEN Len(u) + 1 ELSE CHOOSE i \in DotAt(u) : TRUE
        whole == SubSeq(u, 1, dot - 1)
        frac  == SubSeq(u, dot + 1, Len(u))
        tenth == IF frac = << >> THEN 0 ELSE DigitVal(frac[1])
    IN  IF u = <<"i", "n", "f">> THEN Inf(Sign(s))
        ELSE IF u = <<"n", "a", "n">> THEN NaN
        ELSE Fin(Sign(s) * (10 * DecimalValue(whole) + tenth))

\* A validator that swallows the ValueError and answers 0.0.
is_valid_coordinate_swallow(value) ==
    IF IsNumeral(value) THEN FloatOf(value) ELSE Fin(0)

\* is_valid_coordinate(value, name): the float, or None after st.error.
is_valid_coordinate(value) ==
    IF IsNumeral(value) THEN FloatOf(value) ELSE None

-----------------------------------------------------------------------------
(* get_integer_digits(num), lines 69-70: len(str(int(abs(float(num))))) *)

RECURSIVE StrLenOfNat(_)
\* len(str(n)) of an int n >= 0
StrLenOfNat(n) == IF n < 10 THEN 1 ELSE 1 + StrLenOfNat(n \div 10)

\* int() truncates a finite float; int(inf) raises OverflowError and
\* int(nan) raises ValueError.
get_integer_digits(num) ==
    CASE num.kind = "fin" -> [exc |-> "", n |-> StrLenOfNat(Abs(num.t) \div 10)]
      [] num.kind = "inf" -> [exc |-> "OverflowError", n |-> 0]
      [] num.kind = "nan" -> [exc |-> "ValueError", n |-> 0]

(* np.sqrt(dx**2 + dy**2) formatted with :.2f, lines 79-80: hundredths *)
SectionLength(x0, y0, x1, y1) ==
    LET s == (x1.t - x0.t) * (x1.t - x0.t) + (y1.t - y0.t) * (y1.t - y0.t)
        top == 10 * (Abs(x1.t - x0.t) + Abs(y1.t - y0.t)) + 1
    IN  CHOOSE k \in 0..top :
            /\ (k = 0 \/ (2 * k - 1) * (2 * k - 1) <= 400 * s)
            /\ 400 * s < (2 * k + 1) * (2 * k + 1)

-----------------------------------------------------------------------------
(* rasterio.transform.rowcol and round, lines 98-103 *)

\* rowcol(transform, x, y) with its default op = math.floor: the inverse
\* affine transform of (x, y), floored.  Returns Python ints (row, col).
rowcol(tr, x, y) ==
    << FloorDiv(y.t - tr.f, tr.e), FloorDiv(x.t - tr.c, tr.a) >>

\* round() of a number given in tenths: to the nearest integer, a tie to the
\* even one.
RoundTenths(t) ==
    LET k == FloorDiv(t, 10)
        r == t - 10 * k
    IN  IF r < 5 THEN k
        ELSE IF r > 5 THEN k + 1
        ELSE IF k % 2 = 0 THEN k ELSE k + 1

\* int(round(n)) of a Python int n: the int itself, 10 * n tenths rounded.
IntRound(n) == RoundTenths(10 * n)

\* (int(round(row)), int(round(col))), lines 102-103
ToPixel(tr, x, y) ==
    LET rc == rowcol(tr, x, y) IN << IntRound(rc[1]), IntRound(rc[2]) >>

-----------------------------------------------------------------------------
(* skimage.draw.line, called on line 46 *)

RECURSIVE WhileD(_, _, _, _)
\* while d >= 0: r = r + sr; d = d - 2 * dc
WhileD(r, d, sr, dc) ==
    IF d >= 0 THEN WhileD(r + sr, d - 2 * dc, sr, dc) ELSE << r, d >>

RECURSIVE LineLoop(_, _, _, _, _, _)
\* for i in range(dc): store the pixel, then step
LineLoop(i, r, c, d, k, acc) ==
    IF i >= k.dc THEN acc
    ELSE LET rd == WhileD(r, d, k.sr, k.dc)
         IN  LineLoop(i + 1, rd[1], c + k.sc, rd[2] + 2 * k.dr, k,
                      [acc EXCEPT ![i + 1] =
                           IF k.steep THEN << c, r >> ELSE << r, c >>])

\* The arrays rr, cc (zipped) after the loop, before the end point is
\* stored; steep is the test dr > dc that swaps the roles of row and column.
LineArray(r0, c0, r1, c1, steep) ==
    LET dr0 == Abs(r1 - r0)
        dc0 == Abs(c1 - c0)
        sc0 == IF c1 - c0 > 0 THEN 1 ELSE -1
        sr0 == IF r1 - r0 > 0 THEN 1 ELSE -1
        k   == IF steep
               THEN [dr |-> dc0, dc |-> dr0, sr |-> sc0, sc |-> sr0, steep |-> TRUE]
               ELSE [dr |-> dr0, dc |-> dc0, sr |-> sr0, sc |-> sc0, steep |-> FALSE]
        r   == IF steep THEN c0 ELSE r0
        c   == IF steep THEN r0 ELSE c0
        zeros == [i \in 1..(Max(dc0, dr0) + 1) |-> << 0, 0 >>]
    IN  LineLoop(0, r, c, 2 * k.dr - k.dc, k, zeros)

\* A line that never swaps the axes of a steep segment.
line_no_steep(r0, c0, r1, c1) ==
    [LineArray(r0, c0, r1, c1, FALSE) EXCEPT ![Abs(c1 - c0) + 1] = << r1, c1 >>]

\* A line that forgets to store the end point.
line_no_endpoint(r0, c0, r1, c1) ==
    LineArray(r0, c0, r1, c1, Abs(r1 - r0) > Abs(c1 - c0))

\* A line that leaves the end point out when it runs towards smaller
\* coordinates (a half-open range).
line_halfopen(r0, c0, r1, c1) ==
    LET a == [LineArray(r0, c0, r1, c1, Abs(r1 - r0) > Abs(c1 - c0))
                  EXCEPT ![Max(Abs(c1 - c0), Abs(r1 - r0)) + 1] = << r1, c1 >>]
    IN  IF (r1 < r0 \/ c1 < c0) /\ Len(a) > 1 THEN SubSeq(a, 1, Len(a) - 1) ELSE a

\* line(r0, c0, r1, c1): rr[dc] = r1; cc[dc] = c1 after the loop.
line(r0, c0, r1, c1) ==
    [LineArray(r0, c0, r1, c1, Abs(r1 - r0) > Abs(c1 - c0))
         EXCEPT ![Max(Abs(c1 - c0), Abs(r1 - r0)) + 1] = << r1, c1 >>]

-----------------------------------------------------------------------------
(* dem_data[rr, cc], line 47 *)

Height(dem) == Len(dem)
Width(dem)  == IF dem = << >> THEN 0 ELSE Len(dem[1])

\* numpy accepts an index i of an axis of length n when -n <= i < n.
IndexOk(i, n) == -n <= i /\ i < n

\* The position a valid index stands for.
Wrap(i, n) == IF i < 0 THEN i + n ELSE i

\* dem_data[rr, cc]: IndexError when some index is out of range, else the
\* values at the indexed pixels in the order of rr, cc.
NumpyIndex(dem, path) ==
    IF \E i \in 1..Len(path) :
           \/ ~IndexOk(path[i][1], Height(dem))
           \/ ~IndexOk(path[i][2], Width(dem))
    THEN [exc |-> "IndexError", values |-> << >>]
    ELSE [exc |-> "",
          values |-> [i \in 1..Len(path) |->
                         dem[Wrap(path[i][1], Height(dem)) + 1]
                            [Wrap(path[i][2], Width(dem)) + 1]]]

\* extract_cross_section(dem_data, start_pixel, end_pixel), lines 45-47
extract_cross_section(dem, p, q) ==
    LET path == line(p[1], p[2], q[1], q[2])
        got  == NumpyIndex(dem, path)
    IN  [exc |-> got.exc, values |-> got.values, path |-> path]

\* A point list whose index starts at 1.
ExportPointsFromOne(values) ==
    [i \in 1..Len(values) |-> << i, values[i] >>]

\* [(i, elevation) for i, elevation in enumerate(elevation_values)], line 117
ExportPoints(values) ==
    [i \in 1..Len(values) |-> << i - 1, values[i] >>]

-----------------------------------------------------------------------------
(* The script, lines 59-146 *)

\* st.error(f"{name} must be a numeric value"), line 31
NumericError(name) == [msg |-> "must be a numeric value", name |-> name]

\* st.error("All coordinates must have the same number of digits ..."), line 141
DigitError ==
    [msg |-> "All coordinates must have the same number of digits in their integer parts.",
     name |-> ""]

\* st.error(f"Error processing TIFF file: {str(e)}"), line 139
ProcessingError(e) == [msg |-> "Error processing TIFF file", name |-> e]

\* tempfile.NamedTemporaryFile picks a name that is not in use.
NewName(d) ==
    CHOOSE n \in 1..(Cardinality(d) + 1) :
        n \notin d /\ \A m \in 1..(Cardinality(d) + 1) : m \notin d => n <= m

\* What a run starts from: nothing reported, nothing computed.
FreshRun ==
    /\ start_x_val = None /\ start_y_val = None
    /\ end_x_val = None /\ end_y_val = None
    /\ errors = {} /\ infos = {} /\ shown = {}
    /\ section_length = -1
    /\ tmp_file_path = 0 /\ dxf_file_path = 0
    /\ dem_data = << >> /\ transform = NoTransform
    /\ start_pixel = << >> /\ end_pixel = << >>
    /\ rr_cc = << >> /\ rr_cc_swapped = << >>
    /\ elevation_values = << >> /\ points = << >>
    /\ created = {}
    /\ outcome = "running"

\* The first run of a session: no file, empty fields, an empty temp directory.
Init ==
    /\ uploaded_file = NoFile
    /\ start_x = << >> /\ start_y = << >> /\ end_x = << >> /\ end_y = << >>
    /\ pc = "gate"
    /\ disk = {}
    /\ FreshRun

runVars == << start_x_val, start_y_val, end_x_val, end_y_val, errors, infos,
              shown, section_length, tmp_file_path, dxf_file_path, dem_data,
              transform, start_pixel, end_pixel, rr_cc, rr_cc_swapped,
              elevation_values, points, created, outcome >>

inputVars == << uploaded_file, start_x, start_y, end_x, end_y >>

\* The script has returned and the page waits for the user.  What the next
\* run starts from is the widgets, which the user sets anew, and the temp
\* directory; nothing else of the finished run is kept.
Finish ==
    /\ pc = "done"
    /\ pc' = "idle"
    /\ uploaded_file' = NoFile
    /\ start_x' = << >> /\ start_y' = << >> /\ end_x' = << >> /\ end_y' = << >>
    /\ start_x_val' = None /\ start_y_val' = None
    /\ end_x_val' = None /\ end_y_val' = None
    /\ errors' = {} /\ infos' = {} /\ shown' = {}
    /\ section_length' = -1
    /\ tmp_file_path' = 0 /\ dxf_file_path' = 0
    /\ dem_data' = << >> /\ transform' = NoTransform
    /\ start_pixel' = << >> /\ end_pixel' = << >>
    /\ rr_cc' = << >> /\ rr_cc_swapped' = << >>
    /\ elevation_values' = << >> /\ points' = << >>
    /\ created' = {}
    /\ outcome' = "running"
    /\ UNCHANGED disk

\* The user changes the widgets and Streamlit runs the script again.
Rerun ==
    /\ pc = "idle"
    /\ Cardinality(disk) + 2 <= MaxFiles
    /\ uploaded_file' \in Uploads
    /\ start_x' \in CoordStrings /\ start_y' \in CoordStrings
    /\ end_x' \in CoordStrings /\ end_y' \in CoordStrings
    /\ pc' = "gate"
    /\ UNCHANGED << disk, runVars >>

\* line 60 and its else branch, lines 142-146
Gate ==
    /\ pc = "gate"
    /\ IF uploaded_file # NoFile
          /\ start_x # << >> /\ start_y # << >> /\ end_x # << >> /\ end_y # << >>
       THEN /\ pc' = "validate"
            /\ UNCHANGED << infos, outcome >>
       ELSE /\ infos' =
                 {m \in {"Please upload a TIFF file."} : uploaded_file = NoFile}
                 \cup {m \in {"Please provide all coordinate inputs."} :
                          << >> \in {start_x, start_y, end_x, end_y}}
            /\ outcome' = "info"
            /\ pc' = "done"
    /\ UNCHANGED << inputVars, disk, start_x_val, start_y_val, end_x_val,
                    end_y_val, errors, shown, section_length, tmp_file_path,
                    dxf_file_path, dem_data, transform, start_pixel, end_pixel,
                    rr_cc, rr_cc_swapped, elevation_values, points, created >>

\* lines 62-65
Validate ==
    /\ pc = "validate"
    /\ start_x_val' = is_valid_coordinate(start_x)
    /\ start_y_val' = is_valid_coordinate(start_y)
    /\ end_x_val' = is_valid_coordinate(end_x)
    /\ end_y_val' = is_valid_coordinate(end_y)
    /\ errors' =
         {NumericError("Start Easting") : z \in {v \in {start_x_val'} : v = None}}
         \cup {NumericError("Start Northing") : z \in {v \in {start_y_val'} : v = None}}
         \cup {NumericError("End Easting") : z \in {v \in {end_x_val'} : v = None}}
         \cup {NumericError("End Northing") : z \in {v \in {end_y_val'} : v = None}}
    /\ pc' = "digits"
    /\ UNCHANGED << inputVars, disk, infos, shown, section_length, tmp_file_path,
                    dxf_file_path, dem_data, transform, start_pixel, end_pixel,
                    rr_cc, rr_cc_swapped, elevation_values, points, created,
                    outcome >>

\* lines 67-80 and the else branch, lines 140-141.  get_integer_digits is
\* called outside any try: what it raises ends the run unhandled.
CheckDigits ==
    /\ pc = "digits"
    /\ LET x_digits     == get_integer_digits(start_x_val)
           y_digits     == get_integer_digits(start_y_val)
           end_x_digits == get_integer_digits(end_x_val)
           end_y_digits == get_integer_digits(end_y_val)
       IN  IF None \in {start_x_val, start_y_val, end_x_val, end_y_val}
           THEN /\ outcome' = "numeric_errors"
                /\ pc' = "done"
                /\ UNCHANGED << errors, shown, section_length >>
           ELSE IF \E g \in {x_digits, y_digits, end_x_digits, end_y_digits} :
                       g.exc # ""
           THEN /\ outcome' = "unhandled"
                /\ pc' = "done"
                /\ UNCHANGED << errors, shown, section_length >>
           ELSE IF /\ x_digits.n = y_digits.n
                   /\ y_digits.n = end_x_digits.n
                   /\ end_x_digits.n = end_y_digits.n
           THEN /\ section_length' =
                     SectionLength(start_x_val, start_y_val, end_x_val, end_y_val)
                /\ shown' = shown \cup {"length"}
                /\ pc' = "tmpfile"
                /\ UNCHANGED << errors, outcome >>
           ELSE /\ errors' = errors \cup {DigitError}
                /\ outcome' = "digit_error"
                /\ pc' = "done"
                /\ UNCHANGED << shown, section_length >>
    /\ UNCHANGED << inputVars, disk, start_x_val, start_y_val, end_x_val,
                    end_y_val, infos, tmp_file_path, dxf_file_path, dem_data,
                    transform, start_pixel, end_pixel, rr_cc, rr_cc_swapped,
                    elevation_values, points, created >>

\* lines 83-85: the upload is copied to a named temp file kept after close
WriteTemp ==
    /\ pc = "tmpfile"
    /\ tmp_file_path' = NewName(disk)
    /\ disk' = disk \cup {NewName(disk)}
    /\ created' = created \cup {NewName(disk)}
    /\ pc' = "open"
    /\ UNCHANGED << inputVars, start_x_val, start_y_val, end_x_val, end_y_val,
                    errors, infos, shown, section_length, dxf_file_path,
                    dem_data, transform, start_pixel, end_pixel, rr_cc,
                    rr_cc_swapped, elevation_values, points, outcome >>

\* The handler of lines 138-139: report, and the run is over.
Except(e) ==
    /\ errors' = errors \cup {ProcessingError(e)}
    /\ outcome' = "processing_error"
    /\ pc' = "done"

\* lines 88-95
OpenRaster ==
    /\ pc = "open"
    /\ IF uploaded_file.kind = "corrupt"
       THEN /\ Except("RasterioIOError")
            /\ UNCHANGED << dem_data, transform, shown >>
       ELSE /\ dem_data' = uploaded_file.dem
            /\ transform' = [a |-> uploaded_file.a, c |-> uploaded_file.c,
                             e |-> uploaded_file.e, f |-> uploaded_file.f]
            /\ shown' = shown \cup {"dem_plot"}
            /\ pc' = "rowcol"
            /\ UNCHANGED << errors, outcome >>
    /\ UNCHANGED << inputVars, disk, start_x_val, start_y_val, end_x_val,
                    end_y_val, infos, section_length, tmp_file_path,
                    dxf_file_path, start_pixel, end_pixel, rr_cc, rr_cc_swapped,
                    elevation_values, points, created >>

\* lines 98-106
MapPixels ==
    /\ pc = "rowcol"
    /\ start_pixel' = ToPixel(transform, start_x_val, start_y_val)
    /\ end_pixel' = ToPixel(transform, end_x_val, end_y_val)
    /\ shown' = shown \cup {"start_pixel", "end_pixel"}
    /\ pc' = "extract"
    /\ UNCHANGED << inputVars, disk, start_x_val, start_y_val, end_x_val,
                    end_y_val, errors, infos, section_length, tmp_file_path,
                    dxf_file_path, dem_data, transform, rr_cc, rr_cc_swapped,
                    elevation_values, points, created, outcome >>

\* lines 109-112
Extract ==
    /\ pc = "extract"
    /\ LET got == extract_cross_section(dem_data, start_pixel, end_pixel)
       IN  /\ rr_cc' = got.path
           /\ IF got.exc # ""
              THEN /\ Except(got.exc)
                   /\ UNCHANGED << elevation_values, shown >>
              ELSE /\ elevation_values' = got.values
                   /\ shown' = shown \cup {"profile_chart"}
                   /\ pc' = "export"
                   /\ UNCHANGED << errors, outcome >>
    /\ UNCHANGED << inputVars, disk, start_x_val, start_y_val, end_x_val,
                    end_y_val, infos, section_length, tmp_file_path,
                    dxf_file_path, dem_data, transform, start_pixel, end_pixel,
                    rr_cc_swapped, points, created >>

\* lines 115-123: the temp file exists from line 121 on; doc.saveas may fail,
\* and then line 123 does not run.
Export ==
    /\ pc = "export"
    /\ points' = ExportPoints(elevation_values)
    /\ disk' = disk \cup {NewName(disk)}
    /\ created' = created \cup {NewName(disk)}
    /\ \E saved \in BOOLEAN :
          IF saved
          THEN /\ dxf_file_path' = NewName(disk)
               /\ pc' = "download"
               /\ UNCHANGED << errors, outcome >>
          ELSE /\ Except("ExportWriteError")
               /\ UNCHANGED dxf_file_path
    /\ UNCHANGED << inputVars, start_x_val, start_y_val, end_x_val, end_y_val,
                    infos, shown, section_length, tmp_file_path, dem_data,
                    transform, start_pixel, end_pixel, rr_cc, rr_cc_swapped,
                    elevation_values >>

\* lines 126-132
Download ==
    /\ pc = "download"
    /\ shown' = shown \cup {"download"}
    /\ pc' = "cleanup"
    /\ UNCHANGED << inputVars, disk, start_x_val, start_y_val, end_x_val,
                    end_y_val, errors, infos, section_length, tmp_file_path,
                    dxf_file_path, dem_data, transform, start_pixel, end_pixel,
                    rr_cc, rr_cc_swapped, elevation_values, points, created,
                    outcome >>

\* lines 135-136
Cleanup ==
    /\ pc = "cleanup"
    /\ disk' = disk \ {tmp_file_path, dxf_file_path}
    /\ outcome' = "ok"
    /\ pc' = "done"
    /\ UNCHANGED << inputVars, start_x_val, start_y_val, end_x_val, end_y_val,
                    errors, infos, shown, section_length, tmp_file_path,
                    dxf_file_path, dem_data, transform, start_pixel, end_pixel,
                    rr_cc, rr_cc_swapped, elevation_values, points, created >>

Next ==
    \/ Finish
    \/ Rerun
    \/ Gate
    \/ Validate
    \/ CheckDigits
    \/ WriteTemp
    \/ OpenRaster
    \/ MapPixels
    \/ Extract
    \/ Export
    \/ Download
    \/ Cleanup

Spec == Init /\ [][Next]_vars

-----------------------------------------------------------------------------
(* The rasterizer on its own: line() applied to every pair of pixels *)

Coord == (-MaxCoord)..MaxCoord

InitLine ==
    /\ uploaded_file = NoFile
    /\ start_x = << >> /\ start_y = << >> /\ end_x = << >> /\ end_y = << >>
    /\ pc = "line"
    /\ disk = {}
    /\ start_x_val = None /\ start_y_val = None
    /\ end_x_val = None /\ end_y_val = None
    /\ errors = {} /\ infos = {} /\ shown = {}
    /\ section_length = -1
    /\ tmp_file_path = 0 /\ dxf_file_path = 0
    /\ dem_data = << >> /\ transform = NoTransform
    /\ start_pixel \in Coord \X Coord
    /\ end_pixel \in Coord \X Coord
    /\ rr_cc = << >> /\ rr_cc_swapped = << >>
    /\ elevation_values = << >> /\ points = << >>
    /\ created = {}
    /\ outcome = "running"

lineFixed == << inputVars, pc, disk, start_x_val, start_y_val, end_x_val,
                end_y_val, errors, infos, shown, section_length, tmp_file_path,
                dxf_file_path, dem_data, transform, start_pixel, end_pixel,
                elevation_values, points, created, outcome >>

\* rr, cc = line(start_pixel[0], start_pixel[1], end_pixel[0], end_pixel[1])
Rasterize ==
    /\ pc = "line"
    /\ rr_cc = << >>
    /\ rr_cc' = line(start_pixel[1], start_pixel[2], end_pixel[1], end_pixel[2])
    /\ UNCHANGED << lineFixed, rr_cc_swapped >>

\* the same call with the end points exchanged
RasterizeSwapped ==
    /\ pc = "line"
    /\ rr_cc_swapped = << >>
    /\ rr_cc_swapped' =
           line(end_pixel[1], end_pixel[2], start_pixel[1], start_pixel[2])
    /\ UNCHANGED << lineFixed, rr_cc >>

NextLine == Rasterize \/ RasterizeSwapped

SpecLine == InitLine /\ [][NextLine]_vars

-----------------------------------------------------------------------------
(* Vocabulary of the properties *)

Ended == pc = "done"

\* The condition of line 60.
GatePassed ==
    /\ uploaded_file # NoFile
    /\ start_x # << >> /\ start_y # << >> /\ end_x # << >> /\ end_y # << >>

\* The fields whose text is not a floating-point numeral.
BadFields ==
    {n \in {"Start Easting"} : ~IsNumeral(start_x)}
    \cup {n \in {"Start Northing"} : ~IsNumeral(start_y)}
    \cup {n \in {"End Easting"} : ~IsNumeral(end_x)}
    \cup {n \in {"End Northing"} : ~IsNumeral(end_y)}

\* The fields a "must be a numeric value" error was reported for.
ReportedFields == {e.name : e \in {x \in errors : x.msg = "must be a numeric value"}}

AllParse == BadFields = {}

\* Nothing after the validation has happened: no digit check, no distance,
\* no temp file, no raster read, no chart, no export.
NothingAfterValidation ==
    /\ DigitError \notin errors
    /\ outcome \notin {"digit_error", "unhandled"}
    /\ section_length = -1
    /\ shown = {}
    /\ created = {}
    /\ dem_data = << >>
    /\ elevation_values = << >>
    /\ points = << >>

\* The raster was not touched.
RasterUntouched ==
    /\ created = {}
    /\ dem_data = << >>
    /\ section_length = -1
    /\ shown = {}
    /\ points = << >>

\* Number of decimal digits of the integer part of |v|, v finite, in tenths.
DigitCount(v) ==
    CHOOSE n \in 1..8 :
        /\ \A m \in 1..(n - 1) : Abs(v.t) \div 10 >= 10 ^ m
        /\ Abs(v.t) \div 10 < 10 ^ n

Parsed == << FloatOf(start_x), FloatOf(start_y), FloatOf(end_x), FloatOf(end_y) >>

AllFinite == \A i \in 1..4 : Parsed[i].kind = "fin"

SameDigitCount ==
    \A i, j \in 1..4 : DigitCount(Parsed[i]) = DigitCount(Parsed[j])

\* A pixel inside the grid.
InGrid(p) ==
    /\ 0 <= p[1] /\ p[1] < Height(dem_data)
    /\ 0 <= p[2] /\ p[2] < Width(dem_data)

PathInGrid == \A i \in 1..Len(rr_cc) : InGrid(rr_cc[i])

Sgn(n) == IF n > 0 THEN 1 ELSE IF n < 0 THEN -1 ELSE 0

-----------------------------------------------------------------------------
(* The claims *)

\* C1: when a request ends, on every exit path, every temporary file the
\* request created has been deleted.
C1_TempFilesDeleted == Ended => created \cap disk = {}

\* C2: if an end point or any pixel of the rasterized path lies outside
\* [0, height) x [0, width), a negative row or column included, the request
\* fails with the out-of-bounds error: no profile, no profile chart, no DXF.
C2_OutOfBoundsFails ==
    (/\ start_pixel # << >>
     /\ \/ ~InGrid(start_pixel)
        \/ ~InGrid(end_pixel)
        \/ ~PathInGrid)
    => /\ elevation_values = << >>
       /\ "profile_chart" \notin shown
       /\ "download" \notin shown
       /\ points = << >>
       /\ pc \in {"extract", "done"}
       /\ Ended => /\ outcome = "processing_error"
                   /\ ProcessingError("IndexError") \in errors

\* C3 as stated: for every combination of the four strings, a "must be a
\* numeric value" error is reported for exactly the fields that are no
\* numeral, and if there is one, no later step has run.
C3_EveryCombination ==
    Ended => /\ ReportedFields = BadFields
             /\ BadFields # {} => NothingAfterValidation

\* C3 amended: when a file is uploaded and the four strings are not empty,
\* once the validation has run a "must be a numeric value" error is reported
\* for exactly the fields that are no numeral, and if there is one the run
\* ends there: no digit check, no distance, no temp file, no raster read, no
\* chart, no export.
C3_Validation ==
    (GatePassed /\ pc \notin {"gate", "validate"})
    => /\ ReportedFields = BadFields
       /\ BadFields # {} => /\ NothingAfterValidation
                            /\ pc \in {"digits", "done"}
                            /\ Ended => outcome = "numeric_errors"

\* C3 witness: a run that ended with two fields reported and two accepted.
C3_Witness ==
    /\ Ended /\ GatePassed
    /\ outcome = "numeric_errors"
    /\ Cardinality(ReportedFields) = 2
    /\ Cardinality(BadFields) = 2

\* C4: when all four coordinates parse, the run goes past the validation
\* exactly if the four values have the same number of integer digits, and
\* is otherwise rejected with the digit-count error, the raster untouched.
C4_DigitGate ==
    (Ended /\ GatePassed /\ AllParse)
    => /\ \/ "length" \in shown
          \/ DigitError \in errors /\ RasterUntouched
       /\ AllFinite => ("length" \in shown <=> SameDigitCount)

\* C4 for finite values only (what the code does do): the run goes past the
\* validation exactly if the digit counts agree, and is otherwise rejected
\* with the digit-count error, the raster untouched.
C4_FiniteInputs ==
    (Ended /\ GatePassed /\ AllParse /\ AllFinite)
    => /\ "length" \in shown <=> SameDigitCount
       /\ ~SameDigitCount => DigitError \in errors /\ RasterUntouched

\* C5: the rasterized path has length >= 1, starts at p0 and ends at p1,
\* and is exactly [p0] when p0 = p1.
C5_PathEndpoints ==
    rr_cc # << >>
    => /\ Len(rr_cc) >= 1
       /\ rr_cc[1] = start_pixel
       /\ rr_cc[Len(rr_cc)] = end_pixel
       /\ start_pixel = end_pixel => rr_cc = << start_pixel >>

\* C5 witness: a path drawn towards smaller rows and larger columns.
C5_Witness ==
    /\ pc = "line"
    /\ rr_cc # << >>
    /\ Len(rr_cc) >= 4
    /\ end_pixel[1] < start_pixel[1]
    /\ end_pixel[2] > start_pixel[2]

\* C6: consecutive pixels of the path differ by at most 1 in row and in
\* column and are not the same pixel, and the row and the column each move
\* only in the direction from p0 to p1, or stay.
C6_PathConnected ==
    \A i \in 1..(Len(rr_cc) - 1) :
        LET dr == rr_cc[i + 1][1] - rr_cc[i][1]
            dc == rr_cc[i + 1][2] - rr_cc[i][2]
        IN  /\ Abs(dr) <= 1 /\ Abs(dc) <= 1
            /\ rr_cc[i + 1] # rr_cc[i]
            /\ dr \in {0, Sgn(end_pixel[1] - start_pixel[1])}
            /\ dc \in {0, Sgn(end_pixel[2] - start_pixel[2])}

\* C6 witness: a steep path of several pixels that also changes column.
C6_Witness ==
    /\ pc = "line"
    /\ Len(rr_cc) >= 4
    /\ Abs(end_pixel[1] - start_pixel[1]) > Abs(end_pixel[2] - start_pixel[2])
    /\ end_pixel[2] # start_pixel[2]

\* C7: the path from p0 to p1 and the path from p1 to p0 have the same
\* length.
C7_SwapLength ==
    (rr_cc # << >> /\ rr_cc_swapped # << >>)
    => Len(rr_cc) = Len(rr_cc_swapped)

\* C7 witness: both paths drawn, between two different pixels.
C7_Witness ==
    /\ pc = "line"
    /\ rr_cc # << >> /\ rr_cc_swapped # << >>
    /\ Len(rr_cc) >= 3
    /\ start_pixel[1] # end_pixel[1] /\ start_pixel[2] # end_pixel[2]

\* C8: for a path whose pixels are all inside the grid, the profile has one
\* value per path pixel, in path order, profile[i] = grid[path[i]], and the
\* exported points are (i, profile[i]) for i = 0 .. len(profile) - 1.
C8_ProfileAndPoints ==
    (elevation_values # << >> /\ PathInGrid)
    => /\ Len(elevation_values) = Len(rr_cc)
       /\ \A i \in 1..Len(rr_cc) :
              elevation_values[i] = dem_data[rr_cc[i][1] + 1][rr_cc[i][2] + 1]
       /\ pc \in {"download", "cleanup", "done"}
          => /\ Len(points) = Len(elevation_values)
             /\ \A i \in 1..Len(points) :
                    points[i] = << i - 1, elevation_values[i] >>

\* C8 witness: a finished run that offered the DXF of a profile of three
\* pixels or more, all inside the grid.
C8_Witness ==
    /\ Ended
    /\ outcome = "ok"
    /\ PathInGrid
    /\ Len(points) >= 3
    /\ "download" \in shown

\* The integer nearest to num / den (den # 0), where it is not a tie.
NearestOrTie(num, den, k) ==
    LET n == IF den > 0 THEN num ELSE -num
        d == Abs(den)
    IN  2 * Abs(n - k * d) <= d

\* C9: each component of a pixel is the inverse affine transform of the
\* point rounded to the nearest integer (k + f with 0.5 < f < 1 gives k + 1).
C9_RoundsToNearest ==
    start_pixel # << >>
    => /\ NearestOrTie(start_y_val.t - transform.f, transform.e, start_pixel[1])
       /\ NearestOrTie(start_x_val.t - transform.c, transform.a, start_pixel[2])
       /\ NearestOrTie(end_y_val.t - transform.f, transform.e, end_pixel[1])
       /\ NearestOrTie(end_x_val.t - transform.c, transform.a, end_pixel[2])

\* C10: every request of four non-empty strings ends in a reported outcome:
\* the full result, the per-field errors, the digit-count error or one
\* "Error processing" message; never in an exception nothing handles.
C10_NoUnhandledException ==
    (Ended /\ GatePassed)
    => /\ outcome \in {"ok", "numeric_errors", "digit_error", "processing_error"}
       /\ outcome = "ok" => "download" \in shown /\ errors = {}
       /\ outcome = "numeric_errors" => ReportedFields # {}
       /\ outcome = "digit_error" => errors = {DigitError}
       /\ outcome = "processing_error" => Cardinality(errors) = 1

====
